---- MODULE Spec2Model ----
(***************************************************************************)
(* PrepVista backend: the Flask routes of src/backend (auth, analysis,     *)
(* interview, resume) over the MongoDB collections users and analyses,     *)
(* the uploads directory and the JWT middleware.                           *)
(*                                                                         *)
(* Documents are records whose DOMAIN is the set of keys of the Python     *)
(* dict; an ObjectId is [t |-> "oid", n |-> k] and its str() is            *)
(* [t |-> "str", n |-> k], so a query by _id is sensitive to the type.     *)
(* Time is counted in ticks of 1/TicksPerSecond second.                    *)
(*                                                                         *)
(* After the routes come the parts that are followed step by step: the     *)
(* upload routes from save_file to the response, the video scoring and the *)
(* report of analysis.py, generate_interview_report of the interview       *)
(* service, and get_user_answer and InterviewApp of interview.py.          *)
(***************************************************************************)
EXTENDS Integers, Sequences, FiniteSets, TLC

VARIABLES
    users,      \* db['users']: set of user documents
    analyses,   \* db['analyses']: set of analysis documents
    files,      \* report files that exist under the uploads folder
    nextId,     \* number of the next ObjectId the database hands out
    now,        \* the wall clock, in ticks
    issued,     \* the tokens generate_token has returned so far
    jwtLib,     \* which exp comparison the installed PyJWT 2.x performs
    resp,       \* the last HTTP response, with the request that caused it
    reg,        \* the register requests in flight (one per worker thread)
    up,         \* an upload request of routes/*.py, step by step
    vid,        \* analyze_video_ultrafast and generate_fast_report of analysis.py
    rep,        \* InterviewService.generate_interview_report, step by step
    ans,        \* get_user_answer of interview.py and its camera-monitor thread
    gui         \* InterviewApp of interview.py: fields, button, threads, events

vars == <<users, analyses, files, nextId, now, issued, jwtLib, resp, reg,
          up, vid, rep, ans, gui>>
db == <<users, analyses, files, nextId>>
backend == <<users, analyses, files, nextId, now, issued, jwtLib, resp, reg>>
procs == <<up, vid, rep, ans, gui>>

----------------------------------------------------------------------------
(* Bounds of the model *)

MaxDocs == 3            \* ObjectIds handed out per run
NumWorkers == 2         \* register requests served concurrently
TicksPerSecond == 2     \* resolution of the clock
MaxEarly == 1           \* the clock starts at one of the ticks 0..MaxEarly
MaxTokens == 3          \* tokens issued per run

----------------------------------------------------------------------------
(* Program constants *)

JWT_EXPIRATION_HOURS == 24
MinPasswordLen == 6
JWT_SECRET_KEY == "change-this-secret-key"
SecondsPerHour == 60 * 60

----------------------------------------------------------------------------
(* Values *)

Absent == "<absent>"          \* a key that is not in the JSON body
NoError == "<none>"

Oid(n) == [t |-> "oid", n |-> n]
StrId(n) == [t |-> "str", n |-> n]
NoId == [t |-> "none", n |-> 0]
MalformedId == [t |-> "str", n |-> -1]      \* a string that is not 24 hex digits
UnknownId == [t |-> "str", n |-> MaxDocs + 1] \* well formed, names no document

\* str(x): an ObjectId becomes its hex string, a string stays itself
Str(x) == IF x.t = "oid" THEN StrId(x.n) ELSE x

\* bson.ObjectId(s): accepts a 24-hex string (or an ObjectId), raises otherwise
ObjectIdOk(s) == s.t \in {"str", "oid"} /\ s.n >= 0
ObjectId(s) == Oid(s.n)

\* dict.get(key, default)
Get(doc, key, default) == IF key \in DOMAIN doc THEN doc[key] ELSE default

Emails == {"a@x.io", "A@x.io", "b@x.io ", "nomail"}
Passwords == {"abc", "secret1", "secret2"}
Names == {"Ann"}

\* str.strip()
Strip(e) == IF e = "b@x.io " THEN "b@x.io" ELSE e
\* str.lower()
Lower(e) == IF e = "A@x.io" THEN "a@x.io" ELSE e
HasAt(e) == e # "nomail"

----------------------------------------------------------------------------
(* Password hashes: bcrypt (models/user.py) and werkzeug (routes/auth.py) *)

EmptyHash == [scheme |-> "", pw |-> ""]     \* the string ''

\* bcrypt.hashpw(password, gensalt())
BcryptHash(pw) == [scheme |-> "bcrypt", pw |-> pw]
\* bcrypt.checkpw(password, hashed)
BcryptCheck(pw, h) == h.scheme = "bcrypt" /\ h.pw = pw

\* werkzeug.security.generate_password_hash(password)
WerkzeugHash(pw) == [scheme |-> "werkzeug", pw |-> pw]
\* werkzeug.security.check_password_hash(pwhash, password): a string that is
\* not "method$salt$hash" never matches
CheckPasswordHash(h, pw) == h.scheme = "werkzeug" /\ h.pw = pw

----------------------------------------------------------------------------
(* JWT: utils/auth_middleware.py over PyJWT 2.x *)

Day == JWT_EXPIRATION_HOURS * SecondsPerHour * TicksPerSecond   \* in ticks

\* The instants the clock is sampled at: a few right after start-up and a
\* window around the moment the earliest tokens expire.
Instants == (0 .. MaxEarly) \cup
            ((Day - TicksPerSecond) .. (Day + MaxEarly + TicksPerSecond))

\* timegm(dt.utctimetuple()): a datetime becomes whole seconds
WholeSeconds(t) == t \div TicksPerSecond

\* The exp comparisons of PyJWT 2.x: older releases compare the whole seconds
\* of the clock with <, later ones compare the clock with <=.
JwtLibs == {"lt", "le"}

NoToken == [form |-> "none", user_id |-> NoId, exp |-> 0, iat |-> 0,
            key |-> "", alg |-> ""]
EmptyToken == [NoToken EXCEPT !.form = "empty"]         \* the string ''
GarbageToken == [NoToken EXCEPT !.form = "garbage"]     \* not a JWS at all
BearerWord == [NoToken EXCEPT !.form = "word"]          \* the word Bearer

\* generate_token(user_id) at instant t
generate_tokenAlt(user_id, t) ==
    [form |-> "jwt",
     user_id |-> user_id,
     exp |-> WholeSeconds(t) + JWT_EXPIRATION_HOURS * 60,
     iat |-> WholeSeconds(t),
     key |-> JWT_SECRET_KEY,
     alg |-> "HS256"]
generate_token(user_id, t) ==
    [form |-> "jwt",
     user_id |-> user_id,
     exp |-> WholeSeconds(t) + JWT_EXPIRATION_HOURS * SecondsPerHour,
     iat |-> WholeSeconds(t),
     key |-> JWT_SECRET_KEY,
     alg |-> "HS256"]

\* PyJWT _validate_exp at instant t
Expired(tok, t, lib) ==
    IF lib = "lt" THEN tok.exp < WholeSeconds(t)
    ELSE tok.exp * TicksPerSecond <= t

\* jwt.decode(token, Config.JWT_SECRET_KEY, algorithms=["HS256"]): the
\* header and signature are checked before the claims
JwtDecodeAlt(tok, t, lib) ==
    IF tok.form # "jwt" THEN "invalid"
    ELSE IF Expired(tok, t, lib) THEN "expired"
    ELSE "ok"
JwtDecode(tok, t, lib) ==
    IF tok.form # "jwt" THEN "invalid"
    ELSE IF tok.alg # "HS256" THEN "invalid"
    ELSE IF tok.key # JWT_SECRET_KEY THEN "invalid"
    ELSE IF Expired(tok, t, lib) THEN "expired"
    ELSE "ok"

\* An Authorization header is the sequence auth_header.split(" ") yields.
NoHeader == [present |-> FALSE, parts |-> <<>>]
Header(parts) == [present |-> TRUE, parts |-> parts]
Bearer(tok) == Header(<<BearerWord, tok>>)

\* token_required: the decision taken before the wrapped function is called
GateOk(user_id) == [ok |-> TRUE, user_id |-> user_id, error |-> NoError]
GateFail(error) == [ok |-> FALSE, user_id |-> NoId, error |-> error]

token_required(header, t, lib) ==
    IF header.present /\ Len(header.parts) < 2 THEN GateFail("Invalid token format")
    ELSE LET token == IF header.present THEN header.parts[2] ELSE NoToken IN
         IF token.form \in {"none", "empty"} THEN GateFail("Token is missing")
         ELSE LET d == JwtDecode(token, t, lib) IN
              IF d = "expired" THEN GateFail("Token has expired")
              ELSE IF d = "invalid" THEN GateFail("Invalid token")
              ELSE GateOk(token.user_id)

----------------------------------------------------------------------------
(* models/user.py *)

None == [none |-> TRUE]

\* User._serialize_user
SerializeUserAlt(user) ==
    [k \in DOMAIN user |-> IF k = "_id" THEN Str(user._id) ELSE user[k]]
SerializeUser(user) ==
    [k \in DOMAIN user \ {"password"} |->
        IF k = "_id" THEN Str(user._id) ELSE user[k]]

\* collection.find_one({'email': e})
FindByEmail(U, e) == {u \in U : u.email = e}
\* collection.find_one({'_id': id})
FindById(U, id) == {u \in U : u._id = id}

\* the document create_user builds
NewUser(id, email, password, full_name) ==
    [_id |-> id,
     email |-> Lower(email),
     password |-> BcryptHash(password),
     full_name |-> full_name,
     profile |-> [profile_photo |-> ""],
     subscription |-> [plan |-> "free", analyses_used |-> 0, analyses_limit |-> 5]]

\* insert_one under the unique index on email (_create_indexes)
DuplicateKeyAlt(U, doc) == FALSE
DuplicateKey(U, doc) == \E u \in U : u.email = doc.email

\* User.authenticate
AuthenticateAlt(U, email, password) ==
    LET found == FindByEmail(U, Lower(email)) IN
    IF found = {} THEN [user |-> None, error |-> "Invalid credentials"]
    ELSE [user |-> SerializeUser(CHOOSE u \in found : TRUE), error |-> NoError]
Authenticate(U, email, password) ==
    LET found == FindByEmail(U, Lower(email)) IN
    IF found = {} THEN [user |-> None, error |-> "Invalid credentials"]
    ELSE LET user == CHOOSE u \in found : TRUE IN
         IF ~BcryptCheck(password, user.password)
         THEN [user |-> None, error |-> "Invalid credentials"]
         ELSE [user |-> SerializeUser(user), error |-> NoError]

\* User.get_user_by_id
GetUserById(U, user_id) ==
    IF ~ObjectIdOk(user_id) THEN None
    ELSE LET found == FindById(U, ObjectId(user_id)) IN
         IF found = {} THEN None
         ELSE SerializeUser(CHOOSE u \in found : TRUE)

\* collection.update_one({'_id': id}, {'$set': {key: value}})
SetField(U, id, key, value) ==
    {IF u._id = id
     THEN [k \in DOMAIN u \cup {key} |-> IF k = key THEN value ELSE u[k]]
     ELSE u : u \in U}

\* User.increment_analyses_count: $inc subscription.analyses_used
IncrementAnalysesCount(U, user_id) ==
    IF ~ObjectIdOk(user_id) THEN U
    ELSE {IF u._id = ObjectId(user_id)
          THEN [u EXCEPT !.subscription.analyses_used = @ + 1]
          ELSE u : u \in U}

----------------------------------------------------------------------------
(* models/analysis.py *)

NoPath == 0
AnalysisTypes == {"video", "interview", "resume"}

\* the document create_analysis builds; the report of document n is file n
NewAnalysis(id, user_id, analysis_type, report_path) ==
    [_id |-> id,
     user_id |-> Str(user_id),
     analysis_type |-> analysis_type,
     report_path |-> report_path]

\* Analysis._serialize_analysis
SerializeAnalysis(a) == [a EXCEPT !._id = Str(a._id)]

\* Analysis.get_analysis_by_id
GetAnalysisById(A, analysis_id) ==
    IF ~ObjectIdOk(analysis_id) THEN None
    ELSE LET found == FindById(A, ObjectId(analysis_id)) IN
         IF found = {} THEN None
         ELSE SerializeAnalysis(CHOOSE a \in found : TRUE)

\* Analysis.delete_analysis: delete_one({'_id': ObjectId(id), 'user_id': str(uid)})
DeleteAnalysisMatch(a, analysis_id, user_id) ==
    a._id = ObjectId(analysis_id) /\ a.user_id = Str(user_id)

\* delete_many({'user_id': uid})
DeleteMany(A, user_id) == {a \in A : a.user_id # user_id}

----------------------------------------------------------------------------
(* Requests and responses *)

Idle == [route |-> "none", protected |-> FALSE, handler |-> FALSE,
         hdr |-> NoHeader, caller |-> NoId, req |-> None,
         status |-> 0, error |-> NoError,
         token |-> NoToken, user |-> None, sent |-> NoPath]

\* the response of a route that is not wrapped by token_required
Public(route, req, status, error) ==
    [Idle EXCEPT !.route = route, !.req = req, !.status = status, !.error = error]

\* the 401 token_required answers itself
Rejected(route, hdr, error) ==
    [Idle EXCEPT !.route = route, !.protected = TRUE, !.hdr = hdr,
                 !.status = 401, !.error = error]

\* the response of a wrapped function that was called with current_user_id
Handled(route, hdr, uid, req, status, error) ==
    [Idle EXCEPT !.route = route, !.protected = TRUE, !.handler = TRUE,
                 !.hdr = hdr, !.caller = uid, !.req = req,
                 !.status = status, !.error = error]

\* The Authorization headers a client can send: none, malformed ones, the
\* tokens the server issued, and tokens signed without the server's secret.
ForgedTokens ==
    {[generate_token(Str(u._id), Day) EXCEPT !.key = "attacker-key"] : u \in users}
        \cup {[generate_token(UnknownId, Day) EXCEPT !.alg = "none"]}
AllHeaders ==
    {NoHeader, Header(<<BearerWord>>), Bearer(EmptyToken), Bearer(GarbageToken)}
        \cup {Bearer(i.tok) : i \in issued}
        \cup {Bearer(tok) : tok \in ForgedTokens}
\* the headers of clients that send the token they were given, or none
SessionHeaders == {NoHeader} \cup {Bearer(i.tok) : i \in issued}

AnalysisIds == {StrId(n) : n \in 1 .. MaxDocs} \cup {MalformedId, UnknownId}

\* token_required(f): what decorated() answers when it does not call f
Reject(route, hdr, error) ==
    /\ resp' = Rejected(route, hdr, error)
    /\ UNCHANGED <<users, analyses, files, nextId, issued>>

Issue(user_id) == [tok |-> generate_token(user_id, now), at |-> now, user |-> user_id]

----------------------------------------------------------------------------
(* routes/auth.py: register and login *)

\* a JSON body with every key, or with one key left out
RegisterData ==
    [email : Emails, password : Passwords, full_name : Names]
        \cup {[email |-> Absent, password |-> "secret1", full_name |-> "Ann"],
              [email |-> "a@x.io", password |-> Absent, full_name |-> "Ann"],
              [email |-> "a@x.io", password |-> "secret1", full_name |-> Absent]}

\* register, up to the call of create_user: the error it answers, if any
RegisterValidation(data) ==
    IF Absent \in {data.email, data.password, data.full_name}
    THEN "Missing required fields"
    ELSE IF Len(data.password) < MinPasswordLen
    THEN "Password must be at least 6 characters"
    ELSE IF ~HasAt(Strip(data.email))
    THEN "Invalid email format"
    ELSE NoError

\* POST /api/auth/register, served by one thread without interference
Register ==
    \E data \in RegisterData :
        LET err == RegisterValidation(data) IN
        /\ UNCHANGED <<analyses, files, now, jwtLib, reg, procs>>
        /\ IF err # NoError
           THEN /\ resp' = Public("register", data, 400, err)
                /\ UNCHANGED <<users, nextId, issued>>
           ELSE IF FindByEmail(users, Lower(Strip(data.email))) # {}
           THEN /\ resp' = Public("register", data, 400, "User already exists")
                /\ UNCHANGED <<users, nextId, issued>>
           ELSE LET doc == NewUser(Oid(nextId), Strip(data.email),
                                   data.password, data.full_name)
                    user == SerializeUser(doc)
                IN  /\ nextId <= MaxDocs
                    /\ users' = users \cup {doc}
                    /\ nextId' = nextId + 1
                    /\ issued' = issued \cup {Issue(user._id)}
                    /\ resp' = [Public("register", data, 201, NoError) EXCEPT
                                   !.token = generate_token(user._id, now),
                                   !.user = user]

LoginData ==
    [email : Emails, password : Passwords]
        \cup {[email |-> Absent, password |-> "secret1"],
              [email |-> "a@x.io", password |-> Absent]}

\* POST /api/auth/login
Login ==
    \E data \in LoginData :
        /\ UNCHANGED <<users, analyses, files, nextId, now, jwtLib, reg, procs>>
        /\ IF Absent \in {data.email, data.password}
           THEN /\ resp' = Public("login", data, 400, "Email and password required")
                /\ UNCHANGED issued
           ELSE LET r == Authenticate(users, Strip(data.email), data.password) IN
                IF r.error # NoError
                THEN /\ resp' = Public("login", data, 401, r.error)
                     /\ UNCHANGED issued
                ELSE /\ Cardinality(issued \cup {Issue(r.user._id)}) <= MaxTokens
                     /\ issued' = issued \cup {Issue(r.user._id)}
                     /\ resp' = [Public("login", data, 200, NoError) EXCEPT
                                    !.token = generate_token(r.user._id, now),
                                    !.user = r.user]

----------------------------------------------------------------------------
(* routes/auth.py: the routes behind token_required *)

\* GET /api/auth/me
get_current_user(hdr, uid) ==
    LET user == GetUserById(users, uid) IN
    /\ UNCHANGED <<users, analyses, files, nextId, issued>>
    /\ IF user = None
       THEN resp' = Handled("me", hdr, uid, None, 404, "User not found")
       ELSE resp' = [Handled("me", hdr, uid, None, 200, NoError) EXCEPT !.user = user]

Me(H) ==
    \E hdr \in H :
        /\ LET gate == token_required(hdr, now, jwtLib) IN
           IF gate.ok
           THEN get_current_user(hdr, gate.user_id)
           ELSE Reject("me", hdr, gate.error)
        /\ UNCHANGED <<now, jwtLib, reg, procs>>

ChangePasswordData ==
    [current_password : Passwords, new_password : Passwords]
        \cup {[current_password |-> Absent, new_password |-> "secret2"],
              [current_password |-> "secret1", new_password |-> Absent]}

\* POST /api/auth/change-password
change_password(hdr, uid, data) ==
    LET user == GetUserById(users, uid) IN
    /\ UNCHANGED <<analyses, files, nextId, issued>>
    /\ IF Absent \in {data.current_password, data.new_password}
       THEN /\ resp' = Handled("change_password", hdr, uid, data, 400,
                               "Current password and new password required")
            /\ UNCHANGED users
       ELSE IF Len(data.new_password) < MinPasswordLen
       THEN /\ resp' = Handled("change_password", hdr, uid, data, 400,
                               "New password must be at least 6 characters")
            /\ UNCHANGED users
       ELSE IF user = None
       THEN /\ resp' = Handled("change_password", hdr, uid, data, 404, "User not found")
            /\ UNCHANGED users
       ELSE IF ~CheckPasswordHash(Get(user, "password_hash", EmptyHash),
                                  data.current_password)
       THEN /\ resp' = Handled("change_password", hdr, uid, data, 401,
                               "Current password is incorrect")
            /\ UNCHANGED users
       ELSE /\ users' = SetField(users, user._id, "password_hash",
                                 WerkzeugHash(data.new_password))
            /\ resp' = Handled("change_password", hdr, uid, data, 200, NoError)

ChangePassword(H) ==
    \E hdr \in H, data \in ChangePasswordData :
        /\ LET gate == token_required(hdr, now, jwtLib) IN
           IF gate.ok
           THEN change_password(hdr, gate.user_id, data)
           ELSE Reject("change_password", hdr, gate.error)
        /\ UNCHANGED <<now, jwtLib, reg, procs>>

DeleteAccountData == [password : Passwords \cup {Absent}]

\* DELETE /api/auth/delete-account (profile photos are not tracked in files)
delete_account(hdr, uid, data) ==
    LET user == GetUserById(users, uid) IN
    /\ UNCHANGED <<files, nextId, issued>>
    /\ IF data.password = Absent
       THEN /\ resp' = Handled("delete_account", hdr, uid, data, 400,
                               "Password confirmation required")
            /\ UNCHANGED <<users, analyses>>
       ELSE IF user = None
       THEN /\ resp' = Handled("delete_account", hdr, uid, data, 404, "User not found")
            /\ UNCHANGED <<users, analyses>>
       ELSE IF ~CheckPasswordHash(Get(user, "password_hash", EmptyHash), data.password)
       THEN /\ resp' = Handled("delete_account", hdr, uid, data, 401, "Incorrect password")
            /\ UNCHANGED <<users, analyses>>
       ELSE /\ analyses' = DeleteMany(analyses, uid)
            /\ LET matched == FindById(users, user._id) IN
               IF matched = {}
               THEN /\ UNCHANGED users
                    /\ resp' = Handled("delete_account", hdr, uid, data, 500,
                                       "Failed to delete account")
               ELSE /\ users' = users \ {CHOOSE u \in matched : TRUE}
                    /\ resp' = Handled("delete_account", hdr, uid, data, 200, NoError)

DeleteAccount(H) ==
    \E hdr \in H, data \in DeleteAccountData :
        /\ LET gate == token_required(hdr, now, jwtLib) IN
           IF gate.ok
           THEN delete_account(hdr, gate.user_id, data)
           ELSE Reject("delete_account", hdr, gate.error)
        /\ UNCHANGED <<now, jwtLib, reg, procs>>

\* update_one({'_id': id}, {'$set': {'subscription.analyses_used': 0}})
ResetUsage(U, id) ==
    {IF u._id = id THEN [u EXCEPT !.subscription.analyses_used = 0] ELSE u : u \in U}

\* DELETE /api/auth/clear-data
clear_user_data(hdr, uid) ==
    LET user == GetUserById(users, uid) IN
    /\ UNCHANGED <<files, nextId, issued>>
    /\ analyses' = DeleteMany(analyses, uid)
    /\ IF user # None /\ "subscription" \in DOMAIN user
       THEN users' = ResetUsage(users, uid)
       ELSE UNCHANGED users
    /\ resp' = Handled("clear_data", hdr, uid, None, 200, NoError)

ClearData(H) ==
    \E hdr \in H :
        /\ LET gate == token_required(hdr, now, jwtLib) IN
           IF gate.ok
           THEN clear_user_data(hdr, gate.user_id)
           ELSE Reject("clear_data", hdr, gate.error)
        /\ UNCHANGED <<now, jwtLib, reg, procs>>


ProfileData == [full_name : {"Bob", Absent},
                profile_photo : {"/uploads/profile_photos/p.png", Absent}]

\* User.update_user: $set of the given keys on {'_id': ObjectId(user_id)}
UpdateUser(U, user_id, data) ==
    IF ~ObjectIdOk(user_id) THEN U
    ELSE {IF u._id # ObjectId(user_id) THEN u
          ELSE [u EXCEPT
                  !.full_name = IF data.full_name = Absent THEN @ ELSE data.full_name,
                  !.profile = IF data.profile_photo = Absent THEN @
                              ELSE [profile_photo |-> data.profile_photo]]
          : u \in U}

\* PUT /api/auth/update
update_profile(hdr, uid, data) ==
    /\ UNCHANGED <<analyses, files, nextId, issued>>
    /\ IF data.full_name = Absent /\ data.profile_photo = Absent
       THEN /\ resp' = Handled("update", hdr, uid, data, 400, "No valid fields to update")
            /\ UNCHANGED users
       ELSE /\ users' = UpdateUser(users, uid, data)
            /\ LET user == GetUserById(users', uid) IN
               IF user = None
               THEN resp' = Handled("update", hdr, uid, data, 400, "Update failed")
               ELSE resp' = [Handled("update", hdr, uid, data, 200, NoError)
                                EXCEPT !.user = user]

UpdateProfile(H) ==
    \E hdr \in H, data \in ProfileData :
        /\ LET gate == token_required(hdr, now, jwtLib) IN
           IF gate.ok
           THEN update_profile(hdr, gate.user_id, data)
           ELSE Reject("update", hdr, gate.error)
        /\ UNCHANGED <<now, jwtLib, reg, procs>>

\* POST /api/auth/upload-photo; upload is what the validation of the file says
upload_profile_photo(hdr, uid, upload) ==
    LET user == GetUserById(users, uid)
        data == [full_name |-> Absent, profile_photo |-> "/uploads/profile_photos/p.png"]
    IN
    /\ UNCHANGED <<analyses, files, nextId, issued>>
    /\ IF upload # "ok"
       THEN /\ resp' = Handled("upload_photo", hdr, uid, upload, 400, upload)
            /\ UNCHANGED users
       ELSE IF user = None
       THEN /\ resp' = Handled("upload_photo", hdr, uid, upload, 404, "User not found")
            /\ UNCHANGED users
       ELSE /\ users' = UpdateUser(users, uid, data)
            /\ LET updated_user == GetUserById(users', uid) IN
               IF updated_user = None
               THEN resp' = Handled("upload_photo", hdr, uid, upload, 400,
                                    "Failed to update profile")
               ELSE resp' = [Handled("upload_photo", hdr, uid, upload, 200, NoError)
                                EXCEPT !.user = updated_user]

UploadPhoto(H) ==
    \E hdr \in H, upload \in {"ok", "No photo file provided"} :
        /\ LET gate == token_required(hdr, now, jwtLib) IN
           IF gate.ok
           THEN upload_profile_photo(hdr, gate.user_id, upload)
           ELSE Reject("upload_photo", hdr, gate.error)
        /\ UNCHANGED <<now, jwtLib, reg, procs>>

\* GET /api/auth/export-data: profile.json holds the user without password_hash
export_data(hdr, uid) ==
    LET user == GetUserById(users, uid) IN
    /\ UNCHANGED <<users, analyses, files, nextId, issued>>
    /\ IF user = None
       THEN resp' = Handled("export_data", hdr, uid, None, 404, "User not found")
       ELSE resp' = [Handled("export_data", hdr, uid, None, 200, NoError) EXCEPT
                        !.user = [k \in DOMAIN user \ {"password_hash"} |-> user[k]]]

ExportData(H) ==
    \E hdr \in H :
        /\ LET gate == token_required(hdr, now, jwtLib) IN
           IF gate.ok
           THEN export_data(hdr, gate.user_id)
           ELSE Reject("export_data", hdr, gate.error)
        /\ UNCHANGED <<now, jwtLib, reg, procs>>

----------------------------------------------------------------------------
(* utils/file_handler.py *)

\* delete_file(path): removed says whether one of the five os.remove attempts
\* succeeds (a PermissionError on all five leaves the file)
delete_file(F, path, removed) ==
    IF path = NoPath \/ path \notin F THEN F
    ELSE IF removed THEN F \ {path} ELSE F

----------------------------------------------------------------------------
(* routes/analysis.py, routes/interview.py, routes/resume.py *)

\* The outcomes of an analysis request before create_analysis is reached:
\* the error the route answers, or "ok".
AnalysisOutcomes ==
    {[status |-> 400, error |-> "No file provided"],
     [status |-> 500, error |-> "Analysis failed"],
     [status |-> 200, error |-> NoError]}

\* the part the three creating routes share: the report file is written, the
\* record is inserted; count says whether increment_analyses_count is called
create_record(route, hdr, uid, type, outcome, count) ==
    /\ UNCHANGED issued
    /\ IF outcome.status # 200
       THEN /\ resp' = Handled(route, hdr, uid, type, outcome.status, outcome.error)
            /\ UNCHANGED <<users, analyses, files, nextId>>
       ELSE /\ nextId <= MaxDocs
            /\ files' = files \cup {nextId}
            /\ analyses' = analyses \cup {NewAnalysis(Oid(nextId), uid, type, nextId)}
            /\ nextId' = nextId + 1
            /\ users' = IF count THEN IncrementAnalysesCount(users, uid) ELSE users
            /\ resp' = Handled(route, hdr, uid, type, 200, NoError)

\* POST /api/analysis/video
AnalyzeVideo(H) ==
    \E hdr \in H, outcome \in AnalysisOutcomes :
        /\ LET gate == token_required(hdr, now, jwtLib) IN
           IF gate.ok
           THEN create_record("analyze_video", hdr, gate.user_id, "video", outcome, TRUE)
           ELSE Reject("analyze_video", hdr, gate.error)
        /\ UNCHANGED <<now, jwtLib, reg, procs>>

\* POST /api/interview/complete
CompleteInterview(H) ==
    \E hdr \in H, outcome \in AnalysisOutcomes :
        /\ LET gate == token_required(hdr, now, jwtLib) IN
           IF gate.ok
           THEN create_record("complete_interview", hdr, gate.user_id, "interview", outcome, FALSE)
           ELSE Reject("complete_interview", hdr, gate.error)
        /\ UNCHANGED <<now, jwtLib, reg, procs>>

\* POST /api/resume/analyze
AnalyzeResume(H) ==
    \E hdr \in H, outcome \in AnalysisOutcomes :
        /\ LET gate == token_required(hdr, now, jwtLib) IN
           IF gate.ok
           THEN create_record("analyze_resume", hdr, gate.user_id, "resume", outcome, FALSE)
           ELSE Reject("analyze_resume", hdr, gate.error)
        /\ UNCHANGED <<now, jwtLib, reg, procs>>

\* the ownership test of the three report routes
OwnedByAlt(analysis, uid) == TRUE
OwnedBy(analysis, uid) == analysis.user_id = uid

\* the test of the delete route: the analysis exists and is the caller's
DeleteAllowedAlt(analysis, uid) == analysis # None
DeleteAllowed(analysis, uid) == analysis # None /\ analysis.user_id = uid

\* the three report routes; type is the analysis_type the route insists on
download(route, hdr, uid, analysis_id, type) ==
    LET analysis == GetAnalysisById(analyses, analysis_id) IN
    /\ UNCHANGED <<users, analyses, files, nextId, issued>>
    /\ IF analysis = None
       THEN resp' = Handled(route, hdr, uid, analysis_id, 404, "Analysis not found")
       ELSE IF ~OwnedBy(analysis, uid)
       THEN resp' = Handled(route, hdr, uid, analysis_id, 403, "Unauthorized access")
       ELSE IF type # "any" /\ analysis.analysis_type # type
       THEN resp' = Handled(route, hdr, uid, analysis_id, 400,
                            IF type = "interview" THEN "Not an interview analysis"
                            ELSE "Not a resume analysis")
       ELSE IF analysis.report_path = NoPath \/ analysis.report_path \notin files
       THEN resp' = Handled(route, hdr, uid, analysis_id, 404, "Report not found")
       ELSE resp' = [Handled(route, hdr, uid, analysis_id, 200, NoError)
                        EXCEPT !.sent = analysis.report_path]

\* GET /api/analysis/report/<analysis_id>
DownloadReport(H) ==
    \E hdr \in H, id \in AnalysisIds :
        /\ LET gate == token_required(hdr, now, jwtLib) IN
           IF gate.ok
           THEN download("download_report", hdr, gate.user_id, id, "any")
           ELSE Reject("download_report", hdr, gate.error)
        /\ UNCHANGED <<now, jwtLib, reg, procs>>

\* GET /api/interview/report/<analysis_id>
DownloadInterviewReport(H) ==
    \E hdr \in H, id \in AnalysisIds :
        /\ LET gate == token_required(hdr, now, jwtLib) IN
           IF gate.ok
           THEN download("download_interview_report", hdr, gate.user_id, id, "interview")
           ELSE Reject("download_interview_report", hdr, gate.error)
        /\ UNCHANGED <<now, jwtLib, reg, procs>>

\* GET /api/resume/report/<analysis_id>
DownloadResumeReport(H) ==
    \E hdr \in H, id \in AnalysisIds :
        /\ LET gate == token_required(hdr, now, jwtLib) IN
           IF gate.ok
           THEN download("download_resume_report", hdr, gate.user_id, id, "resume")
           ELSE Reject("download_resume_report", hdr, gate.error)
        /\ UNCHANGED <<now, jwtLib, reg, procs>>

\* DELETE /api/analysis/<analysis_id>
delete_analysis(hdr, uid, analysis_id, removed) ==
    LET analysis == GetAnalysisById(analyses, analysis_id) IN
    /\ UNCHANGED <<users, nextId, issued>>
    /\ IF DeleteAllowed(analysis, uid)
       THEN LET matched == {a \in analyses : DeleteAnalysisMatch(a, analysis_id, uid)} IN
            /\ files' = delete_file(files, analysis.report_path, removed)
            /\ IF matched # {}
               THEN /\ analyses' = analyses \ {CHOOSE a \in matched : TRUE}
                    /\ resp' = Handled("delete_analysis", hdr, uid, analysis_id, 200, NoError)
               ELSE /\ UNCHANGED analyses
                    /\ resp' = Handled("delete_analysis", hdr, uid, analysis_id, 400,
                                       "Deletion failed")
       ELSE /\ UNCHANGED <<analyses, files>>
            /\ resp' = Handled("delete_analysis", hdr, uid, analysis_id, 404,
                               "Analysis not found or unauthorized")

DeleteAnalysis(H) ==
    \E hdr \in H, id \in AnalysisIds, removed \in BOOLEAN :
        /\ LET gate == token_required(hdr, now, jwtLib) IN
           IF gate.ok
           THEN delete_analysis(hdr, gate.user_id, id, removed)
           ELSE Reject("delete_analysis", hdr, gate.error)
        /\ UNCHANGED <<now, jwtLib, reg, procs>>

----------------------------------------------------------------------------
(* The environment *)

\* the clock moves on to a later instant
Advance ==
    /\ \E t \in Instants : t > now /\ now' = t
    /\ resp' = Idle
    /\ UNCHANGED <<users, analyses, files, nextId, issued, jwtLib, reg, procs>>

\* a report file disappears from the uploads folder (os.path.exists turns false)
ReportFileLost ==
    /\ \E f \in files : files' = files \ {f}
    /\ resp' = Idle
    /\ UNCHANGED <<users, analyses, nextId, now, issued, jwtLib, reg, procs>>

----------------------------------------------------------------------------
(* register under concurrency: each worker thread runs create_user as two   *)
(* database operations, find_one and insert_one                             *)

Workers == 1 .. NumWorkers

RegIdle == [pc |-> "idle", data |-> None, existed |-> FALSE, created |-> FALSE,
            status |-> 0, error |-> NoError]

RegDone(data, existed, created, status, error) ==
    [pc |-> "done", data |-> data, existed |-> existed, created |-> created,
     status |-> status, error |-> error]

\* register from the arrival of the request to the find_one of create_user;
\* existed records whether the lower-cased email had a user at that moment
RegStart(w) ==
    /\ reg[w].pc \in {"idle", "done"}
    /\ \E data \in RegisterData :
        LET err == RegisterValidation(data)
            existed == data.email # Absent
                       /\ FindByEmail(users, Lower(Strip(data.email))) # {}
        IN  reg' = [reg EXCEPT ![w] =
                IF err # NoError THEN RegDone(data, existed, FALSE, 400, err)
                ELSE IF existed THEN RegDone(data, existed, FALSE, 400, "User already exists")
                ELSE [RegIdle EXCEPT !.pc = "checked", !.data = data]]
    /\ UNCHANGED <<users, analyses, files, nextId, now, issued, jwtLib, resp, procs>>

\* create_user from hashpw to the end of register; a DuplicateKeyError of
\* insert_one is caught by the except clause of register
RegInsert(w) ==
    /\ reg[w].pc = "checked"
    /\ LET data == reg[w].data
           doc == NewUser(Oid(nextId), Strip(data.email), data.password, data.full_name)
       IN  IF DuplicateKey(users, doc)
           THEN /\ reg' = [reg EXCEPT ![w] =
                        RegDone(data, FALSE, FALSE, 500, "Registration failed")]
                /\ UNCHANGED <<users, nextId, issued>>
           ELSE /\ nextId <= MaxDocs
                /\ users' = users \cup {doc}
                /\ nextId' = nextId + 1
                /\ issued' = issued \cup {Issue(Str(doc._id))}
                /\ reg' = [reg EXCEPT ![w] = RegDone(data, FALSE, TRUE, 201, NoError)]
    /\ UNCHANGED <<analyses, files, now, jwtLib, resp, procs>>

----------------------------------------------------------------------------
(* The upload routes step by step: POST /api/analysis/video,                 *)
(* POST /api/resume/analyze and POST /api/interview/plan from save_file to   *)
(* the response. The token gate and the database writes of these routes are  *)
(* in AnalyzeVideo and AnalyzeResume above; here the uploaded file is        *)
(* followed through the try block, the finally clause and delete_file.       *)

UploadRoutes == {"analyze_video", "analyze_resume", "create_interview_plan"}

\* range(5) of delete_file: the attempts are numbered 0 .. 4
LastRemoveAttempt == 4

NoResult == [kind |-> "none", status |-> 0, error |-> NoError]

UpIdle == [route |-> "none", pc |-> "idle", saved |-> FALSE, exists |-> FALSE,
           result |-> NoResult, attempt |-> 0, invoked |-> FALSE,
           removed |-> FALSE, status |-> 0]

\* what happens before the try block is entered: the file checks of the route
\* and save_file, which answers "Invalid file type", raises from file.save
\* (leaving a file or not), or returns the path of the saved file
SaveOutcomes ==
    {[saved |-> FALSE, exists |-> FALSE, status |-> 400, error |-> "No file provided"],
     [saved |-> FALSE, exists |-> FALSE, status |-> 400, error |-> "Invalid file type"],
     [saved |-> FALSE, exists |-> FALSE, status |-> 500, error |-> "save raised"],
     [saved |-> FALSE, exists |-> TRUE, status |-> 500, error |-> "save raised"],
     [saved |-> TRUE, exists |-> TRUE, status |-> 0, error |-> NoError]}

\* the ways the try block of a route ends: a return with a status, or an
\* exception that the outer except clause turns into 500
TryOutcomes(route) ==
    {[kind |-> "return", status |-> 200, error |-> NoError],
     [kind |-> "raise", status |-> 500, error |-> "exception"]}
    \cup (IF route = "analyze_video"
          THEN {[kind |-> "return", status |-> 500, error |-> "Analysis failed"]}
          ELSE IF route = "analyze_resume"
          THEN {[kind |-> "return", status |-> 400, error |-> "extract_resume_text"],
                [kind |-> "return", status |-> 500, error |-> "analyze_resume"],
                [kind |-> "return", status |-> 500, error |-> "generate_analysis_report"]}
          ELSE {[kind |-> "return", status |-> 400, error |-> "parse_resume_file"],
                [kind |-> "return", status |-> 500, error |-> "create_interview_plan"]})

\* try ... finally: the finally clause runs however the try block ends
AfterTryAlt(result) == IF result.kind = "raise" THEN "respond" ELSE "finally"
AfterTry(result) == "finally"

\* the outcomes of one os.remove
RemoveOutcomes == {"ok", "PermissionError", "OSError"}

\* the request arrives, passes the gate and reaches save_file
UploadRequest ==
    /\ up.pc \in {"idle", "done"}
    /\ \E route \in UploadRoutes, o \in SaveOutcomes :
        up' = IF o.saved
              THEN [UpIdle EXCEPT !.route = route, !.pc = "try",
                                  !.saved = TRUE, !.exists = TRUE]
              ELSE [UpIdle EXCEPT !.route = route, !.pc = "done",
                                  !.exists = o.exists, !.status = o.status,
                                  !.result = [kind |-> "return", status |-> o.status,
                                              error |-> o.error]]
    /\ UNCHANGED <<backend, vid, rep, ans, gui>>

\* the body of the try block: the service calls and the return statements
UploadTry ==
    /\ up.pc = "try"
    /\ \E result \in TryOutcomes(up.route) :
        up' = [up EXCEPT !.result = result, !.pc = AfterTry(result)]
    /\ UNCHANGED <<backend, vid, rep, ans, gui>>

\* the finally clause: if os.path.exists(path): delete_file(path); delete_file
\* returns at once when the path does not exist
UploadFinally ==
    /\ up.pc = "finally"
    /\ up' = IF up.exists
             THEN [up EXCEPT !.invoked = TRUE, !.attempt = 0, !.pc = "delete"]
             ELSE [up EXCEPT !.pc = "respond"]
    /\ UNCHANGED <<backend, vid, rep, ans, gui>>

\* one turn of the loop of delete_file: os.remove succeeds, raises
\* PermissionError (retried until the last attempt) or raises another error
UploadRemove ==
    /\ up.pc = "delete"
    /\ \E o \in RemoveOutcomes :
        up' = IF o = "ok"
              THEN [up EXCEPT !.exists = FALSE, !.removed = TRUE, !.pc = "respond"]
              ELSE IF o = "PermissionError" /\ up.attempt < LastRemoveAttempt
              THEN [up EXCEPT !.attempt = up.attempt + 1]
              ELSE [up EXCEPT !.pc = "respond"]
    /\ UNCHANGED <<backend, vid, rep, ans, gui>>

\* the response leaves: the status of the return statement, or 500 from the
\* outer except clause
UploadRespond ==
    /\ up.pc = "respond"
    /\ up' = [up EXCEPT !.status = up.result.status, !.pc = "done"]
    /\ UNCHANGED <<backend, vid, rep, ans, gui>>

----------------------------------------------------------------------------
(* analysis.py: analyze_video_ultrafast and calculate_smoothed_score.        *)
(* Landmark coordinates are counted in hundredths of the frame; a score is   *)
(* the exact fraction [num, den] of the value the code computes.             *)

MaxFrames == 4          \* frames of the video (CAP_PROP_FRAME_COUNT)

ScoreFloor == 30
ScoreCeiling == 95
PostureBaseline == 65
EyeContactBaseline == 60
ConfidenceBaseline == 65
Variation == 5
ShoulderThreshold == 8      \* 0.08
EyeThreshold == 10          \* 0.1
TargetSamples == 60
FaceEvery == 3

Abs(x) == IF x < 0 THEN -x ELSE x
Whole(x) == [num |-> x, den |-> 1]
Less(a, b) == a.num * b.den < b.num * a.den
SameValue(a, b) == a.num * b.den = b.num * a.den

\* the built-ins max(a, b) and min(a, b): b only when it is strictly beyond a
PyMax(a, b) == IF Less(a, b) THEN b ELSE a
PyMin(a, b) == IF Less(b, a) THEN b ELSE a

\* sum(samples) of a list of booleans
RECURSIVE CountTrue(_)
CountTrue(samples) ==
    IF samples = <<>> THEN 0
    ELSE (IF Head(samples) THEN 1 ELSE 0) + CountTrue(Tail(samples))

RawScore(samples) == [num |-> CountTrue(samples) * 100, den |-> Len(samples)]

calculate_smoothed_scoreAlt(samples, baseline, variation) ==
    IF samples = <<>> THEN Whole(baseline) ELSE RawScore(samples)
calculate_smoothed_score(samples, baseline, variation) ==
    IF samples = <<>> THEN Whole(baseline)
    ELSE PyMin(Whole(ScoreCeiling), PyMax(Whole(ScoreFloor), RawScore(samples)))

\* the pose landmarks of a frame: None, or the y of both shoulders and the
\* widths of shoulders and hips
PoseLandmarks ==
    {None} \cup [left_y : {50}, right_y : {42, 43, 57, 58},
                 shoulder_width : {20, 21}, hip_width : {25}]

\* the face landmarks of a frame: None, or the x-distance of the two eyes
FaceLandmarks == {None} \cup [eye_distance : {10, 11}]

EmptyDict == [empty |-> TRUE]

VidIdle == [pc |-> "idle", total_frames |-> 0, frame_count |-> 0,
            shoulder_diffs |-> <<>>, posture_samples |-> <<>>,
            eye_contact_samples |-> <<>>, confidence_samples |-> <<>>,
            video_results |-> None, audio_results |-> None,
            overall_score |-> 0, interpretation |-> "none"]

\* cv2.VideoCapture(video_path): not opened returns {}; a video of no frames
\* divides by target_samples = 0
VideoOpen ==
    /\ vid.pc = "idle"
    /\ \E opened \in BOOLEAN, total \in 0 .. MaxFrames :
        vid' = IF ~opened
               THEN [VidIdle EXCEPT !.pc = "returned", !.video_results = EmptyDict]
               ELSE IF total = 0
               THEN [VidIdle EXCEPT !.pc = "raised"]
               ELSE [VidIdle EXCEPT !.pc = "frames", !.total_frames = total]
    /\ UNCHANGED <<backend, up, rep, ans, gui>>

\* one turn of the frame loop (frame_interval is 1 below 60 frames)
VideoFrame ==
    /\ vid.pc = "frames"
    /\ vid.frame_count < vid.total_frames
    /\ vid.frame_count < TargetSamples
    /\ \E ret \in BOOLEAN, pose \in PoseLandmarks, face \in FaceLandmarks :
        IF ~ret THEN vid' = [vid EXCEPT !.pc = "release"]
        ELSE LET count == vid.frame_count + 1
                 diff == Abs(pose.left_y - pose.right_y)
                 withPose ==
                    IF pose = None THEN vid
                    ELSE [vid EXCEPT
                            !.shoulder_diffs = Append(@, diff),
                            !.posture_samples = Append(@, diff < ShoulderThreshold),
                            !.confidence_samples =
                                Append(@, pose.shoulder_width * 10 > pose.hip_width * 8)]
                 withFace ==
                    IF count % FaceEvery = 0 /\ face # None
                    THEN [withPose EXCEPT !.eye_contact_samples =
                                Append(@, face.eye_distance > EyeThreshold)]
                    ELSE withPose
             IN  vid' = [withFace EXCEPT !.frame_count = count]
    /\ UNCHANGED <<backend, up, rep, ans, gui>>

\* cap.release() and the three scores
VideoScore ==
    /\ \/ vid.pc = "release"
       \/ vid.pc = "frames" /\ vid.frame_count = vid.total_frames
    /\ vid' = [vid EXCEPT !.pc = "returned", !.video_results =
            [posture_score |->
                calculate_smoothed_score(vid.posture_samples, PostureBaseline, Variation),
             eye_contact_score |->
                calculate_smoothed_score(vid.eye_contact_samples, EyeContactBaseline, Variation),
             confidence_score |->
                calculate_smoothed_score(vid.confidence_samples, ConfidenceBaseline, Variation),
             blinks_ok |-> TRUE, gestures_ok |-> TRUE,
             frames_analyzed |-> vid.frame_count]]
    /\ UNCHANGED <<backend, up, rep, ans, gui>>

\* the next video
VideoNext ==
    /\ vid.pc \in {"returned", "raised"}
    /\ vid' = VidIdle
    /\ UNCHANGED <<backend, up, rep, ans, gui>>

----------------------------------------------------------------------------
(* analysis.py: generate_fast_report, the overall score and its              *)
(* interpretation. The component scores drawn here are whole numbers, for    *)
(* which the float arithmetic of the code is exact to the unit.              *)

GesturesOkScore == 100
VocalClarityScore == 100
ReducedScore == 70
FillerLimit == 5
OverallCap == 95
ExcellentFrom == 85
GoodFrom == 70
PostureWeight == 25         \* 0.25
EyeContactWeight == 25      \* 0.25
ConfidenceWeight == 20      \* 0.20
GesturesWeight == 15        \* 0.15
VocalClarityWeight == 15    \* 0.15

WholeScores == {30, 59, 60, 65, 80, 95, 100}
FillerCounts == {0, 4, 5, 9}

\* video_results as analyze_video_ultrafast and other callers build it: the
\* dict with the three scores, with gestures_ok true, false or left out; or {}
VideoResults ==
    {EmptyDict}
    \cup [posture_score : {Whole(x) : x \in WholeScores},
          eye_contact_score : {Whole(x) : x \in WholeScores},
          confidence_score : {Whole(x) : x \in {30, 65, 100}},
          gestures_ok : BOOLEAN]
    \cup [posture_score : {Whole(x) : x \in WholeScores},
          eye_contact_score : {Whole(x) : x \in WholeScores},
          confidence_score : {Whole(x) : x \in {30, 65, 100}}]

\* audio_results: None, or the dict of analyze_audio_ultrafast
AudioResults == {None} \cup [filler_count : FillerCounts]

\* sum(score_components.values()) in exact arithmetic, as the fraction num/den
ScoreSum(v, audio_results) ==
    LET p == v.posture_score
        e == v.eye_contact_score
        c == v.confidence_score
        g == IF Get(v, "gestures_ok", TRUE)
             THEN GesturesOkScore ELSE ReducedScore
        a == IF audio_results # None /\ Get(audio_results, "filler_count", 0) < FillerLimit
             THEN VocalClarityScore ELSE ReducedScore
    IN  [num |-> PostureWeight * p.num * e.den * c.den
                 + EyeContactWeight * e.num * p.den * c.den
                 + ConfidenceWeight * c.num * p.den * e.den
                 + (GesturesWeight * g + VocalClarityWeight * a) * p.den * e.den * c.den,
         den |-> 100 * p.den * e.den * c.den]

Interpretation(overall_score) ==
    IF overall_score >= ExcellentFrom THEN "Excellent"
    ELSE IF overall_score >= GoodFrom THEN "Good"
    ELSE "Developing"

\* int(x) of a non-negative fraction, and min(95, .) of an integer
OverallScoreAlt(total) == total.num \div total.den
OverallScore(total) ==
    LET truncated == total.num \div total.den
    IN  IF truncated < OverallCap THEN truncated ELSE OverallCap

\* generate_fast_report: KeyError on {} (no 'posture_score'), else the score
\* written to the report and returned
FastReport ==
    /\ vid.pc = "report"
    /\ vid' = IF vid.video_results = EmptyDict
              THEN [vid EXCEPT !.pc = "raised"]
              ELSE LET overall == OverallScore(ScoreSum(vid.video_results, vid.audio_results))
                   IN  [vid EXCEPT !.pc = "reported", !.overall_score = overall,
                                   !.interpretation = Interpretation(overall)]
    /\ UNCHANGED <<backend, up, rep, ans, gui>>

\* the report is read and the call is over
FastReportDone ==
    /\ vid.pc \in {"reported", "raised"}
    /\ vid.video_results # None
    /\ vid' = [vid EXCEPT !.pc = "closed"]
    /\ UNCHANGED <<backend, up, rep, ans, gui>>

----------------------------------------------------------------------------
(* services/interview_service.py: generate_interview_report. The temporary   *)
(* report of generate_word_report (report_file, in the working directory) is *)
(* moved to report_path in output_dir; the two names never coincide.         *)

LastRenameAttempt == 4      \* range(5)
AvgScores == {0, 6, 9}

\* the three values of a return statement
Returned(path, score, error) == [path |-> path, score |-> score, error |-> error]
NotReturned == Returned("unset", 0, "unset")

RepIdle == [pc |-> "idle", report_file |-> "None", temp |-> FALSE,
            dest |-> "absent", attempt |-> 0, avg_score |-> 0,
            exception |-> NoError, ret |-> NotReturned]

\* what generate_word_report and the reconstruction before it do: a KeyError
\* on the input, an error before or during document.save (report_file is
\* still None; a file may have been written), or the name and the average
BuildOutcomes ==
    {[raised |-> "KeyError", temp |-> FALSE, avg |-> 0],
     [raised |-> "save failed", temp |-> FALSE, avg |-> 0],
     [raised |-> "save failed", temp |-> TRUE, avg |-> 0]}
    \cup [raised : {NoError}, temp : {TRUE}, avg : AvgScores]

RenameOutcomes == {"ok", "PermissionError", "OSError"}
CopyOutcomes == {"ok", "failed", "failed midway"}

\* where the rename loop goes after an attempt
AfterRename(outcome, attempt) ==
    IF outcome = "ok" THEN "return"
    ELSE IF outcome = "PermissionError"
    THEN (IF attempt = LastRenameAttempt THEN "copy" ELSE "rename")
    ELSE "except"

\* shutil.copy2 runs inside the except clause of the loop, itself inside the
\* outer try: an error of the copy reaches the outer except clause
AfterCopyAlt(outcome) == "remove"
AfterCopy(outcome) == IF outcome = "ok" THEN "remove" ELSE "except"

\* lines 117..161: the plan and the results are rebuilt and the report is
\* written to the working directory
ReportBuild ==
    /\ rep.pc = "idle"
    /\ \E o \in BuildOutcomes :
        rep' = IF o.raised # NoError
               THEN [RepIdle EXCEPT !.pc = "except", !.temp = o.temp,
                                    !.exception = o.raised]
               ELSE [RepIdle EXCEPT !.pc = "check", !.temp = TRUE,
                                    !.report_file = "AI_Interview_Report",
                                    !.avg_score = o.avg]
    /\ UNCHANGED <<backend, up, vid, ans, gui>>

\* if report_file and os.path.exists(report_file); the file is named by the
\* second, so a request of the same second may have moved it away already
ReportCheck ==
    /\ rep.pc = "check"
    /\ \E there \in BOOLEAN :
        rep' = IF there
               THEN [rep EXCEPT !.pc = "rename", !.attempt = 0]
               ELSE [rep EXCEPT !.temp = FALSE, !.pc = "returned",
                        !.ret = Returned("None", 0, "Report generation failed")]
    /\ UNCHANGED <<backend, up, vid, ans, gui>>

\* one attempt of os.rename(report_file, report_path)
ReportRename ==
    /\ rep.pc = "rename"
    /\ \E o \in RenameOutcomes :
        rep' = LET next == AfterRename(o, rep.attempt) IN
               IF o = "ok"
               THEN [rep EXCEPT !.temp = FALSE, !.dest = "report", !.pc = next]
               ELSE IF next = "rename"
               THEN [rep EXCEPT !.attempt = rep.attempt + 1]
               ELSE [rep EXCEPT !.pc = next, !.exception = o]
    /\ UNCHANGED <<backend, up, vid, ans, gui>>

\* the fallback of the last attempt: shutil.copy2(report_file, report_path)
ReportCopy ==
    /\ rep.pc = "copy"
    /\ \E o \in CopyOutcomes :
        rep' = [rep EXCEPT
                  !.dest = IF o = "ok" THEN "report"
                           ELSE IF o = "failed midway" THEN "partial" ELSE "absent",
                  !.exception = IF o = "ok" THEN NoError ELSE "copy2 failed",
                  !.pc = AfterCopy(o)]
    /\ UNCHANGED <<backend, up, vid, ans, gui>>

\* the original is removed after the copy, in up to three attempts whose
\* errors are all swallowed
ReportRemove ==
    /\ rep.pc = "remove"
    /\ \E removed \in BOOLEAN :
        rep' = [rep EXCEPT !.temp = ~removed, !.pc = "return"]
    /\ UNCHANGED <<backend, up, vid, ans, gui>>

\* return report_path, avg_score, None
ReportReturn ==
    /\ rep.pc = "return"
    /\ rep' = [rep EXCEPT !.pc = "returned",
                          !.ret = Returned("report_path", rep.avg_score, "None")]
    /\ UNCHANGED <<backend, up, vid, ans, gui>>

\* except Exception as e: the temporary report is removed if report_file is
\* set and exists (three attempts, errors swallowed); return None, 0, str(e)
ReportExcept ==
    /\ rep.pc = "except"
    /\ \E removed \in BOOLEAN :
        rep' = [rep EXCEPT
                  !.temp = IF rep.report_file # "None" /\ rep.temp /\ removed
                           THEN FALSE ELSE rep.temp,
                  !.pc = "returned",
                  !.ret = Returned("None", 0, rep.exception)]
    /\ UNCHANGED <<backend, up, vid, ans, gui>>

\* the next call, with what the earlier ones left in output_dir forgotten
\* (every call draws a fresh random name)
ReportNext ==
    /\ rep.pc = "returned"
    /\ rep' = RepIdle
    /\ UNCHANGED <<backend, up, vid, ans, gui>>

----------------------------------------------------------------------------
(* interview.py: get_user_answer and its camera-monitor thread. Time is      *)
(* counted in half seconds; record_audio and detect_face take as long as the *)
(* microphone and the camera make them take.                                 *)

MaxSamples == 3         \* samples the monitor thread appends per answer
MaxDetect == 5          \* longest detect_face, in half seconds

JoinTimeout == 4        \* monitor_thread.join(timeout=2.0)
SleepTime == 1          \* time.sleep(0.5)
DetectionThreshold == 6 \* detection_rate >= 0.6, in tenths

Recordings == {"spoken answer", ""}

AnsIdle == [pc |-> "idle", camera |-> FALSE, answer |-> "unset", stop |-> FALSE,
            waited |-> 0, th |-> "unstarted", left |-> 0,
            detection_results |-> <<>>, total |-> 0, at_sum |-> <<>>,
            at_len |-> <<>>, final_face_detected |-> FALSE,
            ret |-> [answer |-> "unset", face |-> FALSE],
            late_append |-> FALSE, late_read |-> FALSE]

\* the rate has been computed: the main thread is past line 429
RateComputed(a) == a.pc \in {"computed", "returned"}

\* sum(detection_results) / len(detection_results) >= 0.6
AtLeastThreshold(k, n) == 10 * k >= DetectionThreshold * n

\* lines 404..418: the event, the list, and the thread if there is a camera
AnswerCall ==
    /\ ans.pc = "idle"
    /\ \E camera \in BOOLEAN :
        ans' = [AnsIdle EXCEPT !.pc = "record", !.camera = camera,
                               !.th = IF camera THEN "check" ELSE "unstarted"]
    /\ UNCHANGED <<backend, up, vid, rep, gui>>

\* answer = record_audio(), after any length of time
AnswerRecord ==
    /\ ans.pc = "record"
    /\ \E text \in Recordings : ans' = [ans EXCEPT !.answer = text, !.pc = "set"]
    /\ UNCHANGED <<backend, up, vid, rep, gui>>

\* stop_monitoring.set()
AnswerStop ==
    /\ ans.pc = "set"
    /\ ans' = [ans EXCEPT !.stop = TRUE, !.waited = 0,
                          !.pc = IF ans.camera THEN "join" ELSE "sum"]
    /\ UNCHANGED <<backend, up, vid, rep, gui>>

\* monitor_thread.join(timeout=2.0) returns: the thread has ended, or two
\* seconds have passed
JoinReturns(a) == a.th = "done" \/ a.waited = JoinTimeout

AnswerJoin ==
    /\ ans.pc = "join"
    /\ JoinReturns(ans)
    /\ ans' = [ans EXCEPT !.pc = "sum"]
    /\ UNCHANGED <<backend, up, vid, rep, gui>>

\* if detection_results: sum(detection_results) is evaluated
AnswerSum ==
    /\ ans.pc = "sum"
    /\ ans' = IF ans.detection_results = <<>>
              THEN [ans EXCEPT !.final_face_detected = TRUE, !.pc = "computed"]
              ELSE [ans EXCEPT !.total = CountTrue(ans.detection_results),
                               !.at_sum = ans.detection_results, !.pc = "len"]
    /\ UNCHANGED <<backend, up, vid, rep, gui>>

\* len(detection_results) is evaluated, then the rate and its comparison
AnswerLen ==
    /\ ans.pc = "len"
    /\ ans' = [ans EXCEPT
                 !.at_len = ans.detection_results,
                 !.final_face_detected =
                    AtLeastThreshold(ans.total, Len(ans.detection_results)),
                 !.pc = "computed"]
    /\ UNCHANGED <<backend, up, vid, rep, gui>>

\* return answer or "No answer provided", final_face_detected
AnswerReturn ==
    /\ ans.pc = "computed"
    /\ ans' = [ans EXCEPT !.pc = "returned",
                 !.ret = [answer |-> IF ans.answer = "" THEN "No answer provided"
                                     ELSE ans.answer,
                          face |-> ans.final_face_detected]]
    /\ UNCHANGED <<backend, up, vid, rep, gui>>

\* monitor_camera: while not stop_monitoring.is_set(), and the call of
\* detect_face, which takes d half seconds to reach cap.read()
MonitorCheck ==
    /\ ans.th = "check"
    /\ IF ans.stop THEN ans' = [ans EXCEPT !.th = "done"]
       ELSE /\ Len(ans.detection_results) < MaxSamples
            /\ \E d \in 0 .. MaxDetect :
                ans' = [ans EXCEPT !.th = "detect", !.left = d]
    /\ UNCHANGED <<backend, up, vid, rep, gui>>

\* detect_face reads a frame (unless the capture is closed) and the sample is
\* appended to detection_results
MonitorAppend ==
    /\ ans.th = "detect" /\ ans.left = 0
    /\ \E frame \in {"face", "no face", "closed"} :
        ans' = [ans EXCEPT
                  !.detection_results = Append(@, frame = "face"),
                  !.late_read = @ \/ (RateComputed(ans) /\ frame # "closed"),
                  !.late_append = @ \/ RateComputed(ans),
                  !.th = "sleep", !.left = SleepTime]
    /\ UNCHANGED <<backend, up, vid, rep, gui>>

\* time.sleep(0.5) is over
MonitorWake ==
    /\ ans.th = "sleep" /\ ans.left = 0
    /\ ans' = [ans EXCEPT !.th = "check"]
    /\ UNCHANGED <<backend, up, vid, rep, gui>>

\* half a second passes: only while no thread has a step due at this instant
AnswerTick ==
    /\ ans.pc \in {"record", "join", "returned"}
    /\ ans.th \in {"detect", "sleep"} /\ ans.left > 0
    /\ ans.pc = "join" => ~JoinReturns(ans)
    /\ ans' = [ans EXCEPT !.left = @ - 1,
                          !.waited = IF ans.pc = "join" THEN @ + 1 ELSE @]
    /\ UNCHANGED <<backend, up, vid, rep, gui>>

\* the next question
AnswerNext ==
    /\ ans.pc = "returned"
    /\ ans.th \in {"unstarted", "done"}
    /\ ans' = AnsIdle
    /\ UNCHANGED <<backend, up, vid, rep, gui>>

----------------------------------------------------------------------------
(* interview.py: InterviewApp, the upload of a resume and its analysis in a  *)
(* background thread. A resume is a number; resume_text and interview_plan   *)
(* carry the number of the resume they were made from, NoResume for None.    *)

MaxUploads == 2         \* uploads per run, one analysis thread each
NumResumes == 2         \* PDF files the user can choose from

NoResume == 0
Resumes == 1 .. NumResumes
Uploads == 1 .. MaxUploads

ThreadIdle == [pc |-> "unstarted", path |-> NoResume, text |-> NoResume]

\* InterviewApp.__init__ and setup_ui: the Start Interview button is disabled
GuiIdle == [resume_path |-> NoResume, resume_text |-> NoResume,
            interview_plan |-> NoResume, start_enabled |-> FALSE,
            started |-> FALSE, uploads |-> 0, queue |-> <<>>,
            threads |-> [t \in Uploads |-> ThreadIdle]]

\* on_resume_analyzed: the button is enabled if there is a plan by now;
\* on_resume_error leaves the button alone
AfterCallback(g, callback, enabled) ==
    IF callback = "on_resume_analyzed" /\ g.interview_plan # NoResume /\ ~g.started
    THEN TRUE ELSE enabled

\* the callbacks of a queue run in order, as root.update() runs them
RECURSIVE AfterCallbacks(_, _, _)
AfterCallbacks(g, queue, enabled) ==
    IF queue = <<>> THEN enabled
    ELSE AfterCallbacks(g, Tail(queue), AfterCallback(g, Head(queue), enabled))

\* upload_resume: the path is set, the button disabled, root.update() runs the
\* callbacks that are pending, and the analysis thread is started
UploadResume ==
    /\ ~gui.started
    /\ gui.uploads < MaxUploads
    /\ \E file \in Resumes :
        LET t == gui.uploads + 1 IN
        gui' = [gui EXCEPT
                  !.resume_path = file,
                  !.start_enabled = AfterCallbacks(gui, gui.queue, FALSE),
                  !.queue = <<>>,
                  !.uploads = t,
                  !.threads[t] = [ThreadIdle EXCEPT !.pc = "parse"]]
    /\ UNCHANGED <<backend, up, vid, rep, ans>>

\* parse_and_analyze: parse_resume is called with self.resume_path
ParseStart(t) ==
    /\ gui.threads[t].pc = "parse"
    /\ gui' = [gui EXCEPT !.threads[t].path = gui.resume_path,
                          !.threads[t].pc = "parsing"]
    /\ UNCHANGED <<backend, up, vid, rep, ans>>

\* self.resume_text = the text of that file, or None
ParseEnd(t) ==
    /\ gui.threads[t].pc = "parsing"
    /\ \E ok \in BOOLEAN :
        gui' = [gui EXCEPT
                  !.resume_text = IF ok THEN gui.threads[t].path ELSE NoResume,
                  !.threads[t].pc = "test"]
    /\ UNCHANGED <<backend, up, vid, rep, ans>>

\* if self.resume_text: ... else: self.root.after(0, self.on_resume_error)
TestText(t) ==
    /\ gui.threads[t].pc = "test"
    /\ gui' = IF gui.resume_text # NoResume
              THEN [gui EXCEPT !.threads[t].pc = "generate"]
              ELSE [gui EXCEPT !.threads[t].pc = "done",
                               !.queue = Append(@, "on_resume_error")]
    /\ UNCHANGED <<backend, up, vid, rep, ans>>

\* generate_interview_plan is called with self.resume_text (with None it
\* raises and the thread ends)
PlanStart(t) ==
    /\ gui.threads[t].pc = "generate"
    /\ gui' = IF gui.resume_text = NoResume
              THEN [gui EXCEPT !.threads[t].pc = "done"]
              ELSE [gui EXCEPT !.threads[t].text = gui.resume_text,
                               !.threads[t].pc = "generating"]
    /\ UNCHANGED <<backend, up, vid, rep, ans>>

\* self.interview_plan = the plan, or None; root.after(0, on_resume_analyzed)
PlanEnd(t) ==
    /\ gui.threads[t].pc = "generating"
    /\ \E ok \in BOOLEAN :
        gui' = [gui EXCEPT
                  !.interview_plan = IF ok THEN gui.threads[t].text ELSE NoResume,
                  !.queue = Append(@, "on_resume_analyzed"),
                  !.threads[t].pc = "done"]
    /\ UNCHANGED <<backend, up, vid, rep, ans>>

\* the main loop runs the callback at the head of the queue
RunCallback ==
    /\ gui.queue # <<>>
    /\ gui' = [gui EXCEPT
                 !.start_enabled = AfterCallback(gui, Head(gui.queue), @),
                 !.queue = Tail(@)]
    /\ UNCHANGED <<backend, up, vid, rep, ans>>

\* start_interview, confirmed: the widgets are destroyed and run_interview
\* starts with self.interview_plan
StartInterview ==
    /\ gui.start_enabled /\ ~gui.started
    /\ gui.interview_plan # NoResume
    /\ gui' = [gui EXCEPT !.started = TRUE, !.start_enabled = FALSE]
    /\ UNCHANGED <<backend, up, vid, rep, ans>>


----------------------------------------------------------------------------
(* Specifications *)

\* no step-by-step process has started
ProcsIdle ==
    /\ up = UpIdle
    /\ vid = VidIdle
    /\ rep = RepIdle
    /\ ans = AnsIdle
    /\ gui = GuiIdle

\* the backend before any request
BackendIdle ==
    /\ users = {}
    /\ analyses = {}
    /\ files = {}
    /\ nextId = 1
    /\ now = 0
    /\ issued = {}
    /\ resp = Idle
    /\ reg = [w \in Workers |-> RegIdle]

CurrentJwtLib == "le"

Init ==
    /\ users = {}
    /\ analyses = {}
    /\ files = {}
    /\ nextId = 1
    /\ now = 0
    /\ issued = {}
    /\ jwtLib = CurrentJwtLib
    /\ resp = Idle
    /\ reg = [w \in Workers |-> RegIdle]
    /\ ProcsIdle

\* the accounts and their analyses
Next ==
    \/ Register
    \/ Login
    \/ ChangePassword(SessionHeaders)
    \/ DeleteAccount(SessionHeaders)
    \/ ClearData(SessionHeaders)
    \/ AnalyzeVideo(SessionHeaders)
    \/ DeleteAnalysis(SessionHeaders)

Spec == Init /\ [][Next]_vars

\* two accounts exist, registered at instant t
Registered(t) ==
    /\ users = {NewUser(Oid(1), "a@x.io", "secret1", "Ann"),
                NewUser(Oid(2), "b@x.io", "secret2", "Ann")}
    /\ analyses = {}
    /\ files = {}
    /\ nextId = 3
    /\ now = t
    /\ issued = {[tok |-> generate_token(StrId(n), t), at |-> t, user |-> StrId(n)]
                    : n \in {1, 2}}
    /\ resp = Idle
    /\ reg = [w \in Workers |-> RegIdle]
    /\ ProcsIdle

\* the token gate as the clock moves, under either exp comparison
InitAuth == jwtLib \in JwtLibs /\ \E t \in 0 .. MaxEarly : Registered(t)

NextAuth ==
    \/ Login
    \/ Advance
    \/ Me(AllHeaders)
    \/ ClearData(AllHeaders)
    \/ AnalyzeVideo(AllHeaders)

SpecAuth == InitAuth /\ [][NextAuth]_vars

\* the reports of the three kinds of analysis
InitReports == jwtLib = CurrentJwtLib /\ Registered(0)

NextReports ==
    \/ AnalyzeVideo(SessionHeaders)
    \/ CompleteInterview(SessionHeaders)
    \/ AnalyzeResume(SessionHeaders)
    \/ DownloadReport(SessionHeaders)
    \/ DownloadInterviewReport(SessionHeaders)
    \/ DownloadResumeReport(SessionHeaders)
    \/ DeleteAnalysis(SessionHeaders)
    \/ ReportFileLost

SpecReports == InitReports /\ [][NextReports]_vars

\* the user objects the routes return
NextProfile ==
    \/ Register
    \/ Login
    \/ Me(SessionHeaders)
    \/ UpdateProfile(SessionHeaders)
    \/ UploadPhoto(SessionHeaders)
    \/ ExportData(SessionHeaders)
    \/ ChangePassword(SessionHeaders)

SpecProfile == Init /\ [][NextProfile]_vars

\* concurrent register requests
NextRegister == \E w \in Workers : RegStart(w) \/ RegInsert(w)

SpecRegister == Init /\ [][NextRegister]_vars

\* the upload routes from save_file to the response
NextUpload ==
    \/ UploadRequest
    \/ UploadTry
    \/ UploadFinally
    \/ UploadRemove
    \/ UploadRespond

SpecUpload == Init /\ [][NextUpload]_vars

\* analyze_video_ultrafast over the frames of a video
NextVideo ==
    \/ VideoOpen
    \/ VideoFrame
    \/ VideoScore
    \/ VideoNext

SpecVideo == Init /\ [][NextVideo]_vars

\* generate_fast_report applied to every pair of arguments
InitFastReport ==
    /\ BackendIdle /\ jwtLib = CurrentJwtLib
    /\ up = UpIdle /\ rep = RepIdle /\ ans = AnsIdle /\ gui = GuiIdle
    /\ \E v \in VideoResults, a \in AudioResults :
            vid = [VidIdle EXCEPT !.pc = "report", !.video_results = v,
                                  !.audio_results = a]

NextFastReport ==
    \/ FastReport
    \/ FastReportDone

SpecFastReport == InitFastReport /\ [][NextFastReport]_vars

\* generate_interview_report under every outcome of its file operations
NextInterviewReport ==
    \/ ReportBuild
    \/ ReportCheck
    \/ ReportRename
    \/ ReportCopy
    \/ ReportRemove
    \/ ReportReturn
    \/ ReportExcept
    \/ ReportNext

SpecInterviewReport == Init /\ [][NextInterviewReport]_vars

\* get_user_answer and the monitor thread, interleaved
NextAnswer ==
    \/ AnswerCall
    \/ AnswerRecord
    \/ AnswerStop
    \/ AnswerJoin
    \/ AnswerSum
    \/ AnswerLen
    \/ AnswerReturn
    \/ MonitorCheck
    \/ MonitorAppend
    \/ MonitorWake
    \/ AnswerTick
    \/ AnswerNext

SpecAnswer == Init /\ [][NextAnswer]_vars

\* the desktop application: uploads, analysis threads and the main loop
NextGui ==
    \/ UploadResume
    \/ \E t \in Uploads : ParseStart(t)
    \/ \E t \in Uploads : ParseEnd(t)
    \/ \E t \in Uploads : TestText(t)
    \/ \E t \in Uploads : PlanStart(t)
    \/ \E t \in Uploads : PlanEnd(t)
    \/ RunCallback
    \/ StartInterview

SpecGui == Init /\ [][NextGui]_vars

----------------------------------------------------------------------------
(* Claims *)

\* the header's second space-separated part is a JWT that verifies under the
\* configured secret with HS256 and is not expired at instant t
ValidAuthorization(hdr, t) ==
    /\ hdr.present
    /\ Len(hdr.parts) >= 2
    /\ hdr.parts[2].form = "jwt"
    /\ hdr.parts[2].alg = "HS256"
    /\ hdr.parts[2].key = JWT_SECRET_KEY
    /\ ~Expired(hdr.parts[2], t, jwtLib)

\* C1: a route wrapped by token_required invokes its handler only for a
\* request whose Authorization header carries, as its second part, a JWT
\* signed with the configured secret under HS256 that has not expired; every
\* other request is answered 401 without the handler being invoked and
\* without any change to the users, the analyses or the report files.
C1_TokenGate ==
    [][resp'.protected =>
          /\ resp'.handler => ValidAuthorization(resp'.hdr, now')
          /\ ~ValidAuthorization(resp'.hdr, now') =>
                /\ resp'.status = 401
                /\ ~resp'.handler
                /\ UNCHANGED <<users, analyses, files, nextId>>]_vars

\* an expired token is turned away from clear-data while there is data to clear
C1_Witness ==
    /\ resp.route = "clear_data"
    /\ resp.status = 401
    /\ ~resp.handler
    /\ resp.error = "Token has expired"
    /\ analyses # {}

\* C2 as stated: a token of generate_token(u) passes exactly u whenever it is
\* presented less than 24 hours after issue, and is answered 401 "Token has
\* expired" whenever it is presented later.
C2_AsStated ==
    \A i \in issued :
        (resp.protected /\ resp.hdr = Bearer(i.tok)) =>
            /\ now - i.at < Day => resp.handler /\ resp.caller = i.user
            /\ now - i.at > Day => resp.status = 401 /\ resp.error = "Token has expired"

\* C2, amended: exp is stored in whole seconds, so a token of
\* generate_token(u) passes exactly u whenever it is presented at most 24
\* hours minus one second after issue, and is answered 401 "Token has
\* expired" whenever it is presented at least 24 hours plus one second after
\* issue.
C2_TokenLifetime ==
    \A i \in issued :
        (resp.protected /\ resp.hdr = Bearer(i.tok)) =>
            /\ now - i.at <= Day - TicksPerSecond =>
                  resp.handler /\ resp.caller = i.user
            /\ now - i.at >= Day + TicksPerSecond =>
                  resp.status = 401 /\ resp.error = "Token has expired"

\* a token is presented a second before its 24 hours are over and passes
C2_Witness ==
    \E i \in issued :
        /\ resp.protected
        /\ resp.hdr = Bearer(i.tok)
        /\ now - i.at = Day - TicksPerSecond
        /\ resp.handler
        /\ resp.caller = i.user


DownloadRoutes == {"download_report", "download_interview_report", "download_resume_report"}

\* the analysis records a URL parameter names
Named(A, analysis_id) ==
    {a \in A : ObjectIdOk(analysis_id) /\ a._id = ObjectId(analysis_id)}

\* C3: a report route sends a file only when the analysis exists, belongs to
\* the caller and its report file exists; a nonexistent analysis is answered
\* 404 and another user's analysis 403, both without sending a file.
C3_ReportOnlyToOwner ==
    (resp.route \in DownloadRoutes /\ resp.handler) =>
        LET named == Named(analyses, resp.req) IN
        /\ resp.sent # NoPath =>
              \E a \in named : /\ a.user_id = resp.caller
                               /\ a.report_path = resp.sent
                               /\ resp.sent \in files
        /\ named = {} => resp.status = 404 /\ resp.sent = NoPath
        /\ (\E a \in named : a.user_id # resp.caller) =>
              resp.status = 403 /\ resp.sent = NoPath

\* a user asks for the report of another user's analysis, whose file exists
C3_Witness ==
    /\ resp.route \in DownloadRoutes
    /\ resp.handler
    /\ resp.status = 403
    /\ \E a \in Named(analyses, resp.req) :
            a.user_id # resp.caller /\ a.report_path \in files

\* C4: DELETE /api/analysis/<id> removes a record only when it is the named
\* one and its user_id is the caller's id; a request that names another
\* user's analysis or none is answered 404 and removes neither a record nor a
\* report file.
C4_DeleteOnlyByOwner ==
    [][(resp'.route = "delete_analysis" /\ resp'.handler) =>
          LET named == Named(analyses, resp'.req) IN
          /\ \A a \in analyses \ analyses' : a \in named /\ a.user_id = resp'.caller
          /\ (named = {} \/ \E a \in named : a.user_id # resp'.caller) =>
                /\ resp'.status = 404
                /\ analyses' = analyses
                /\ files' = files]_vars

\* a user names another user's analysis in a delete request; it is still there
C4_Witness ==
    /\ resp.route = "delete_analysis"
    /\ resp.handler
    /\ resp.status = 404
    /\ \E a \in Named(analyses, resp.req) :
            a.user_id # resp.caller /\ a.report_path \in files

\* at most one user per lower-cased email
UniqueEmails == \A u1, u2 \in users : Lower(u1.email) = Lower(u2.email) => u1 = u2

UserOf(U, uid) == {u \in U : Str(u._id) = uid}

\* C6: change-password with the correct current password and a new password
\* of at least 6 characters answers 200, after which login succeeds with the
\* new password and fails with the old one.
C6_ChangePassword ==
    [][(/\ resp'.route = "change_password"
        /\ resp'.handler
        /\ Absent \notin {resp'.req.current_password, resp'.req.new_password}
        /\ Len(resp'.req.new_password) >= MinPasswordLen
        /\ \E u \in UserOf(users, resp'.caller) :
                BcryptCheck(resp'.req.current_password, u.password))
       => \A u \in UserOf(users, resp'.caller) :
            /\ resp'.status = 200
            /\ Authenticate(users', u.email, resp'.req.new_password).error = NoError
            /\ resp'.req.new_password # resp'.req.current_password =>
                 Authenticate(users', u.email, resp'.req.current_password).error # NoError]_vars

\* C7: delete-account with the correct password answers 200 and removes the
\* caller's user document and every analysis of the caller, and nothing of
\* any other user.
C7_DeleteAccount ==
    [][(/\ resp'.route = "delete_account"
        /\ resp'.handler
        /\ resp'.req.password # Absent
        /\ \E u \in UserOf(users, resp'.caller) :
                BcryptCheck(resp'.req.password, u.password))
       => /\ resp'.status = 200
          /\ users' = users \ UserOf(users, resp'.caller)
          /\ analyses' = {a \in analyses : a.user_id # resp'.caller}]_vars

\* C8: after clear-data answers 200 the caller has no analysis records, the
\* account still exists and its subscription.analyses_used is 0.
C8_ClearData ==
    (resp.route = "clear_data" /\ resp.status = 200) =>
        /\ \A a \in analyses : a.user_id # resp.caller
        /\ UserOf(users, resp.caller) # {}
        /\ \A u \in UserOf(users, resp.caller) : u.subscription.analyses_used = 0

\* C9: no user object a route returns has the stored password hash in it.
C9_NoPasswordHashReturned ==
    resp.user # None =>
        /\ "password" \notin DOMAIN resp.user
        /\ "password_hash" \notin DOMAIN resp.user

\* a profile update returns the user, whose document holds a password hash
C9_Witness ==
    /\ resp.route = "update"
    /\ resp.status = 200
    /\ resp.user # None
    /\ \E u \in UserOf(users, resp.caller) : "password" \in DOMAIN u

\* the request names a user and gives the password of the stored hash
Credentials(data) ==
    /\ Absent \notin {data.email, data.password}
    /\ \E u \in users : /\ u.email = Lower(Strip(data.email))
                        /\ BcryptCheck(data.password, u.password)

\* C10: login answers 200 with a token for the user's id exactly when a user
\* exists for the lower-cased email and the password matches the stored
\* hash; an unknown email and a wrong password alike get 401 "Invalid
\* credentials" and no token.
C10_Login ==
    resp.route = "login" =>
        /\ resp.status = 200 <=> Credentials(resp.req)
        /\ resp.status = 200 =>
              /\ resp.token.form = "jwt"
              /\ \E u \in users : /\ u.email = Lower(Strip(resp.req.email))
                                  /\ resp.token.user_id = Str(u._id)
        /\ (Absent \notin {resp.req.email, resp.req.password}
                /\ ~Credentials(resp.req)) =>
              /\ resp.status = 401
              /\ resp.error = "Invalid credentials"
              /\ resp.token = NoToken

\* a login with the email of an account, in another case, and a wrong password
C10_Witness ==
    /\ resp.route = "login"
    /\ resp.status = 401
    /\ resp.req.email = "A@x.io"
    /\ \E u \in users : u.email = "a@x.io"

\* C11: in the three upload routes, once save_file has returned the path of
\* the saved upload, delete_file has been invoked on it by the time the
\* response is returned, however the try block ended (success, service error,
\* exception); and after a removal attempt that succeeded the upload no
\* longer exists.
C11_UploadCleanup ==
    /\ (up.pc \in {"respond", "done"} /\ up.saved) => up.invoked
    /\ (up.pc \in {"respond", "done"} /\ up.removed) => ~up.exists

\* a saved upload whose try block raised has been answered 500 after a
\* removal that succeeded on a retry
C11_Witness ==
    /\ up.pc = "done" /\ up.saved /\ up.result.kind = "raise" /\ up.status = 500
    /\ up.invoked /\ up.removed /\ ~up.exists /\ up.attempt > 0

\* the value the claim gives for a list of samples: the baseline when the list
\* is empty, else the percentage of true samples, clamped to [30, 95]
IsSmoothed(samples, baseline, score) ==
    LET n == Len(samples)
        k == Cardinality({i \in 1 .. n : samples[i]})
    IN  IF n = 0 THEN score = [num |-> baseline, den |-> 1]
        ELSE IF 100 * k < 30 * n THEN score.num = 30 * score.den
        ELSE IF 100 * k > 95 * n THEN score.num = 95 * score.den
        ELSE score.num * n = 100 * k * score.den

Within30To95(score) ==
    score.den > 0 /\ 30 * score.den <= score.num /\ score.num <= 95 * score.den

\* C12: calculate_smoothed_score returns the baseline for an empty sample list
\* and otherwise the percentage of true samples clamped to [30, 95]; so the
\* posture, eye-contact and confidence scores that analyze_video_ultrafast
\* returns (baselines 65, 60, 65) lie in [30, 95], a posture sample being true
\* exactly when the shoulder y-difference is below 0.08.
C12_SmoothedScore ==
    (vid.pc = "returned" /\ vid.video_results # EmptyDict) =>
        LET r == vid.video_results IN
        /\ IsSmoothed(vid.posture_samples, 65, r.posture_score)
        /\ IsSmoothed(vid.eye_contact_samples, 60, r.eye_contact_score)
        /\ IsSmoothed(vid.confidence_samples, 65, r.confidence_score)
        /\ Within30To95(r.posture_score)
        /\ Within30To95(r.eye_contact_score)
        /\ Within30To95(r.confidence_score)
        /\ Len(vid.posture_samples) = Len(vid.shoulder_diffs)
        /\ \A i \in 1 .. Len(vid.posture_samples) :
                vid.posture_samples[i] <=> (vid.shoulder_diffs[i] < 8)

\* a video of three posture samples, two of them true and one at exactly 0.08,
\* no eye sample and confidence samples all true: 66.7, the baseline 60 and 95
C12_Witness ==
    /\ vid.pc = "returned" /\ vid.video_results # EmptyDict
    /\ Len(vid.posture_samples) = 3
    /\ 8 \in {vid.shoulder_diffs[i] : i \in 1 .. 3}
    /\ vid.video_results.posture_score = [num |-> 200, den |-> 3]
    /\ vid.eye_contact_samples = <<>>
    /\ vid.video_results.eye_contact_score = [num |-> 60, den |-> 1]
    /\ vid.video_results.confidence_score = [num |-> 95, den |-> 1]

\* C13: the overall score of generate_fast_report is
\* min(95, floor(0.25*posture + 0.25*eye_contact + 0.20*confidence + 0.15*g
\* + 0.15*v)) with g = 100 if gestures_ok (default true) else 70 and v = 100
\* only when audio results exist with filler_count < 5, else 70; it never
\* exceeds 95; the interpretation is Excellent from 85, Good from 70 to 84 and
\* Developing below 70.
C13_OverallScore ==
    vid.pc = "reported" =>
        LET r == vid.video_results
            g == IF "gestures_ok" \in DOMAIN r /\ ~r.gestures_ok THEN 70 ELSE 100
            v == IF vid.audio_results # None /\ vid.audio_results.filler_count < 5
                 THEN 100 ELSE 70
            \* the weighted sum in hundredths (the scores drawn are whole)
            hundredths == 25 * r.posture_score.num + 25 * r.eye_contact_score.num
                          + 20 * r.confidence_score.num + 15 * g + 15 * v
            floor == CHOOSE n \in 0 .. 100 : 100 * n <= hundredths /\ hundredths < 100 * (n + 1)
        IN  /\ r.posture_score.den = 1 /\ r.eye_contact_score.den = 1
            /\ r.confidence_score.den = 1
            /\ vid.overall_score = (IF floor > 95 THEN 95 ELSE floor)
            /\ vid.overall_score <= 95
            /\ vid.interpretation =
                    (IF vid.overall_score >= 85 THEN "Excellent"
                     ELSE IF vid.overall_score >= 70 THEN "Good"
                     ELSE "Developing")

\* a report whose weighted sum is 100 and is capped at 95
C13_Witness ==
    /\ vid.pc = "reported"
    /\ vid.video_results.posture_score = Whole(100)
    /\ vid.video_results.eye_contact_score = Whole(100)
    /\ vid.video_results.confidence_score = Whole(100)
    /\ "gestures_ok" \notin DOMAIN vid.video_results
    /\ vid.audio_results # None /\ vid.audio_results.filler_count = 4
    /\ vid.overall_score = 95 /\ vid.interpretation = "Excellent"

\* C14: generate_interview_report returns (report_path, average_score, None)
\* only if a report file exists at report_path when it returns, and returns
\* (None, 0, error message) in every other case, whatever PermissionErrors or
\* other errors the rename attempts and the copy fallback raise.
C14_ReportContract ==
    rep.pc = "returned" =>
        \/ /\ rep.ret = [path |-> "report_path", score |-> rep.avg_score, error |-> "None"]
           /\ rep.dest = "report"
        \/ /\ rep.ret.path = "None" /\ rep.ret.score = 0
           /\ rep.ret.error \notin {"None", NoError, "unset"}

\* the report was returned after five PermissionErrors of os.rename, the
\* copy, and a removal of the original that did not succeed
C14_Witness ==
    /\ rep.pc = "returned"
    /\ rep.attempt = 4
    /\ rep.ret = [path |-> "report_path", score |-> 9, error |-> "None"]
    /\ rep.dest = "report" /\ rep.temp

\* the face counts as detected on a list of samples: the list is empty, or at
\* least 60% of it is positive
DetectedOn(samples) ==
    \/ samples = <<>>
    \/ 10 * Cardinality({i \in 1 .. Len(samples) : samples[i]}) >= 6 * Len(samples)

\* C15: get_user_answer reports the face as detected exactly when at least 60%
\* of the samples the camera monitor collected were positive, and as detected
\* when no samples were collected; the answer it returns is the recorded text,
\* or 'No answer provided' when the recording yields nothing. The samples are
\* taken to be the list as the computation found it, at either of its two
\* readings.
C15_FaceDetected ==
    ans.pc = "returned" =>
        /\ \/ ans.ret.face <=> DetectedOn(ans.at_sum)
           \/ ans.ret.face <=> DetectedOn(ans.at_len)
        /\ ans.ret.answer = (IF ans.answer = "" THEN "No answer provided" ELSE ans.answer)

\* C16: when get_user_answer returns, the monitor thread it started has
\* terminated: it appends no sample and reads no frame after the detection
\* rate has been computed, whatever time detect_face takes.
C16_MonitorTerminated ==
    /\ ans.pc = "returned" => ans.th \in {"unstarted", "done"}
    /\ ~ans.late_append
    /\ ~ans.late_read

\* C17: whenever the Start Interview button is enabled, interview_plan is a
\* plan generated from the resume currently shown as uploaded (resume_path),
\* under every interleaving of uploads and their analysis threads.
C17_PlanOfShownResume ==
    gui.start_enabled =>
        /\ gui.interview_plan # 0
        /\ gui.interview_plan = gui.resume_path

====
